---- MODULE Spec2Model ----
(***************************************************************************)
(* Model of the cozinhaexpress backend (src/src/index.ts).                 *)
(*                                                                         *)
(* Part 1: the recipe endpoint GET /api/recipe/:name, which looks a recipe *)
(* up in an in-memory NodeCache (stdTTL 86400 s), on a miss fetches it     *)
(* from TheMealDB, translates strMeal, strInstructions and every truthy    *)
(* strIngredient1..20 one await at a time, stores the result in the cache  *)
(* and answers.  A request is a process whose steps are the synchronous    *)
(* stretches of the handler between two awaits.                            *)
(*                                                                         *)
(* Part 2: the account endpoints (POST /usuarios, PUT /usuarios/:id,       *)
(* POST /api/user/change-password, DELETE /api/user/delete-account,        *)
(* POST /login) over the usuario table; a step is the stretch of a handler *)
(* around one query of the table.                                          *)
(***************************************************************************)
EXTENDS Integers, Sequences, FiniteSets, TLC

(* ------------------------------ bounds --------------------------------- *)

\* number of recipe requests the model runs (each may overlap the others)
NumReqs == 2

\* number of account requests the model runs (each may overlap the others)
NumUserReqs == 2
\* the usuario table gives out at most this many ids
MaxAccounts == 2

(* ------------------------- program constants --------------------------- *)

\* new NodeCache({ stdTTL: 86400 })
stdTTL == 86400
\* for (let i = 1; i <= 20; i++)
NumSlots == 20
\* bcrypt.hash(senha, 10)
saltRounds == 10

Reqs == 1..NumReqs

\* the instants the clock passes through: the start, the last instant of a
\* TTL period that began at the start, and the first instant after it
Instants == {0, stdTTL, stdTTL + 1}
Slots == 1..NumSlots

\* the :name route parameter
Names == {"pie", "tart"}

\* JavaScript null, as a value of a text field
Null == "<null>"

\* JavaScript truthiness of a text field: null and "" are falsy
Truthy(v) == v # Null /\ v # ""

(* ----------------------------- the source ------------------------------ *)

\* a TheMealDB meal: translated fields, one passthrough field, 20 slots
Meal(n, ins, i1, i2, last) ==
  [strMeal |-> n, strInstructions |-> ins, strMealThumb |-> "thumb.jpg",
   strIngredient |-> [s \in Slots |->
      IF s = 1 THEN i1
      ELSE IF s = 2 THEN i2
      ELSE IF s = NumSlots THEN last
      ELSE IF s % 2 = 1 THEN "" ELSE Null]]

\* the records the source may hold under each name
Catalogue(n) ==
  IF n = "pie"
  THEN { Meal("Pie", "Bake", "egg", Null, Null),
         Meal("Pie", "", "", "egg", "salt") }
  ELSE { Meal("Tart", "Chill", Null, "", Null) }

\* response.data.meals of search.php?s=name: null (here << >>) or an array
MealsResponses(n) == {<< >>} \cup {<<m>> : m \in Catalogue(n)}

\* the contents the source may have
Sources ==
  {[n \in Names |-> IF n = "pie" THEN p ELSE t] :
     p \in MealsResponses("pie"), t \in MealsResponses("tart")}

(* --------------------------- the translator ---------------------------- *)

\* (await translate(text, { to: 'pt' })).text
Translate(text) == IF text = "" THEN "" ELSE "pt:" \o text

(* ------------------------------ the cache ------------------------------ *)

\* `recipe_${name}_pt`
CacheKey(n) == "recipe_" \o n \o "_pt"

\* what cache.get returns for a key that is missing or expired
Undefined == [undefined |-> TRUE]

\* Expired with the comparison off by one: an entry expires a second early
ExpiredEarly(c, k, t) == c[k].t <= t

\* NodeCache keeps {v, t} per key, t = time of the set + stdTTL; an entry is
\* expired once t < now
Expired(c, k, t) == c[k].t < t

\* cache.get(key): the stored value, or undefined when missing or expired
CacheGet(c, k, t) ==
  IF k \in DOMAIN c /\ ~Expired(c, k, t) THEN c[k].v ELSE Undefined

\* cache.get deletes the entry it finds expired
CacheAfterGet(c, k, t) ==
  IF k \in DOMAIN c /\ Expired(c, k, t)
  THEN [x \in DOMAIN c \ {k} |-> c[x]]
  ELSE c

\* cache.set(key, value): insert or overwrite, the TTL starts again
CacheSet(c, k, v, t) ==
  [x \in DOMAIN c \cup {k} |-> IF x = k THEN [v |-> v, t |-> t + stdTTL] ELSE c[x]]


(* ----------------------------- accounts -------------------------------- *)

UReqs == 1..NumUserReqs

\* request body values
Emails == {"ana@x.com", "bia@x.com"}
Passwords == {"pw1", "pw2"}

\* a body field that was not sent (undefined)
Missing == "<undefined>"

\* the salts bcrypt may draw
Salts == {"saltA", "saltB"}

\* bcrypt.hash(data, 10) with the salt it drew
Hash(data, salt) == "$2b$" \o ToString(saltRounds) \o "$" \o salt \o "$" \o data

\* bcrypt.compare(data, encrypted)
Compare(data, encrypted) == \E salt \in Salts : encrypted = Hash(data, salt)

\* what findUnique returns when no row matches
NoRow == [none |-> TRUE]

\* prisma.usuario.findUnique({ where: { email } })
FindByEmail(t, email) ==
  IF \E id \in DOMAIN t : t[id].email = email
  THEN LET id == CHOOSE x \in DOMAIN t : t[x].email = email
       IN [id |-> id, email |-> t[id].email, senha |-> t[id].senha]
  ELSE NoRow

\* a function with one more, or one changed, argument
Put(f, x, y) == [z \in DOMAIN f \cup {x} |-> IF z = x THEN y ELSE f[z]]

\* a function without one argument
Without(f, x) == [z \in DOMAIN f \ {x} |-> f[z]]

\* an account request that has not arrived
IdleRequest ==
  [kind |-> "idle", pc |-> "idle", email |-> Missing, senha |-> Missing,
   newPassword |-> Missing, senhaHash |-> Missing, usuario |-> NoRow]

(* ------------------------------- state --------------------------------- *)

VARIABLES
  now,            \* the clock, in seconds
  mealdb,         \* the source: name -> response.data.meals
  cache,          \* the NodeCache: key -> [v, t]
  pc,             \* where each request is in the handler
  name,           \* req.params.name
  meal,           \* const meal
  translatedMeal, \* const translatedMeal
  i,              \* the loop variable of the ingredient loop
  resp,           \* the responses sent on res, in order
  srcCalls,       \* axios.get calls issued by the request
  trCalls,        \* the texts handed to translate() by the request, in order
  wrote,          \* the request completed a cache.set
  fault,          \* the call that threw in the request, "none" if none did
  prior,          \* the requests that had ended when this one began
  began,          \* the clock when the request began
  finished,       \* the clock when the request ended
  usuario,        \* the usuario table: id -> [email, senha]
  nextId,         \* the id the table gives the next row
  secret,         \* per row, the password supplied by the request that set senha
  ureq,           \* each account request: its kind, position, body and locals
  ures,           \* the status codes sent on res by each account request, in order
  connected,      \* the shared Prisma connection is up
  disconnects,    \* prisma.$disconnect() calls made by each account request
  thrown          \* the call that threw in the account request, "none" if none did

rvars == <<now, mealdb, cache, pc, name, meal, translatedMeal, i, resp,
           srcCalls, trCalls, wrote, fault, prior, began, finished>>

\* the shared connection and who cut it
cvars == <<connected, disconnects, thrown>>

uvars == <<usuario, nextId, secret, ureq, ures, cvars>>

vars == <<rvars, uvars>>

NoMeal == [none |-> TRUE]

ErrorBody == [error |-> "Falha ao buscar ou traduzir a receita"]
NotFoundBody == [error |-> "Receita nao encontrada"]

\* the recipe side before any request
InitRecipes ==
  /\ now = 0
  /\ mealdb \in Sources
  /\ cache = << >>
  /\ pc = [r \in Reqs |-> "idle"]
  /\ name = [r \in Reqs |-> ""]
  /\ meal = [r \in Reqs |-> NoMeal]
  /\ translatedMeal = [r \in Reqs |-> NoMeal]
  /\ i = [r \in Reqs |-> 0]
  /\ resp = [r \in Reqs |-> << >>]
  /\ srcCalls = [r \in Reqs |-> 0]
  /\ trCalls = [r \in Reqs |-> << >>]
  /\ wrote = [r \in Reqs |-> FALSE]
  /\ fault = [r \in Reqs |-> "none"]
  /\ prior = [r \in Reqs |-> {}]
  /\ began = [r \in Reqs |-> 0]
  /\ finished = [r \in Reqs |-> 0]

\* the account side before any request: an empty table
InitUsers ==
  /\ usuario = << >>
  /\ nextId = 1
  /\ secret = << >>
  /\ ureq = [u \in UReqs |-> IdleRequest]
  /\ ures = [u \in UReqs |-> << >>]
  /\ connected = TRUE
  /\ disconnects = [u \in UReqs |-> 0]
  /\ thrown = [u \in UReqs |-> "none"]

Init == InitRecipes /\ InitUsers

(* ------------------------- handler building blocks --------------------- *)

\* const translatedMeal = { ...meal }
Spread(m) == m

\* Assign with the ingredient index off by one: the translation of slot i
\* lands in slot i + 1
AssignNextSlot(tm, field, slot, text) ==
  IF field = "strMeal" THEN [tm EXCEPT !.strMeal = text]
  ELSE IF field = "strInstructions" THEN [tm EXCEPT !.strInstructions = text]
  ELSE [tm EXCEPT !.strIngredient[IF slot < NumSlots THEN slot + 1 ELSE slot] = text]

\* translatedMeal.<field> = text, for the field the awaited call was for
Assign(tm, field, slot, text) ==
  IF field = "strMeal" THEN [tm EXCEPT !.strMeal = text]
  ELSE IF field = "strInstructions" THEN [tm EXCEPT !.strInstructions = text]
  ELSE [tm EXCEPT !.strIngredient[slot] = text]

\* the text the pending translate() call was given
Pending(m, field, slot) ==
  IF field = "strMeal" THEN m.strMeal
  ELSE IF field = "strInstructions" THEN m.strInstructions
  ELSE m.strIngredient[slot]

\* NextIngredient without the `if (ingredient)` guard: every slot is
\* translated, present or not
NextIngredientUnguarded(m, from) == IF from <= NumSlots THEN from ELSE NumSlots + 1

\* the ingredient loop from slot `from` on: the first slot that passes
\* `if (ingredient)`, NumSlots + 1 when the loop runs out
NextIngredient(m, from) ==
  IF \E s \in from..NumSlots : Truthy(m.strIngredient[s])
  THEN CHOOSE s \in from..NumSlots :
         /\ Truthy(m.strIngredient[s])
         /\ \A q \in from..(s - 1) : ~Truthy(m.strIngredient[q])
  ELSE NumSlots + 1

\* the slot the loop reaches after the pending call resolved
NextSlot(r) == NextIngredient(meal[r], IF pc[r] = "strInstructions" THEN 1 ELSE i[r] + 1)

\* translatedMeal once the pending call has resolved
Resolved(r) ==
  Assign(translatedMeal[r], pc[r], i[r], Translate(Pending(meal[r], pc[r], i[r])))

\* res.status(status).json(body), after which the handler returns
Send(r, status, body) ==
  /\ resp' = [resp EXCEPT ![r] = Append(@, [status |-> status, body |-> body])]
  /\ pc' = [pc EXCEPT ![r] = "done"]
  /\ finished' = [finished EXCEPT ![r] = now]

\* the catch block: res.status(500).json({ error: ... })
Catch(r, what) ==
  /\ fault' = [fault EXCEPT ![r] = what]
  /\ Send(r, 500, ErrorBody)

(* ------------------------------ actions -------------------------------- *)

\* requests are numbered in the order they arrive
Arrives(r) == pc[r] = "idle" /\ \A q \in Reqs : q < r => pc[q] # "idle"

\* Request without the early return on a cache hit: the handler goes on to
\* the source whatever cache.get returned
RequestSkipsCache(r, n) ==
  /\ Arrives(r)
  /\ name' = [name EXCEPT ![r] = n]
  /\ began' = [began EXCEPT ![r] = now]
  /\ prior' = [prior EXCEPT ![r] = {q \in Reqs : pc[q] = "done"}]
  /\ cache' = CacheAfterGet(cache, CacheKey(n), now)
  /\ pc' = [pc EXCEPT ![r] = "lookup"]
  /\ srcCalls' = [srcCalls EXCEPT ![r] = @ + 1]
  /\ UNCHANGED <<now, mealdb, meal, translatedMeal, i, resp, trCalls, wrote,
                 fault, finished>>

  /\ UNCHANGED uvars

\* A request arrives; cache.get answers.  Hit: res.json(cachedRecipe).
\* Miss: axios.get is issued and the handler awaits it.
Request(r, n) ==
  /\ Arrives(r)
  /\ name' = [name EXCEPT ![r] = n]
  /\ began' = [began EXCEPT ![r] = now]
  /\ prior' = [prior EXCEPT ![r] = {q \in Reqs : pc[q] = "done"}]
  /\ LET cacheKey == CacheKey(n)
         cachedRecipe == CacheGet(cache, cacheKey, now)
     IN /\ cache' = CacheAfterGet(cache, cacheKey, now)
        /\ IF cachedRecipe # Undefined
           THEN /\ Send(r, 200, cachedRecipe)
                /\ UNCHANGED srcCalls
           ELSE /\ pc' = [pc EXCEPT ![r] = "lookup"]
                /\ srcCalls' = [srcCalls EXCEPT ![r] = @ + 1]
                /\ UNCHANGED <<resp, finished>>
  /\ UNCHANGED <<now, mealdb, meal, translatedMeal, i, trCalls, wrote, fault>>

  /\ UNCHANGED uvars

\* A request arrives and cache.get throws: the catch block answers 500.
RequestGetThrows(r, n) ==
  /\ Arrives(r)
  /\ name' = [name EXCEPT ![r] = n]
  /\ began' = [began EXCEPT ![r] = now]
  /\ prior' = [prior EXCEPT ![r] = {q \in Reqs : pc[q] = "done"}]
  /\ Catch(r, "get")
  /\ UNCHANGED <<now, mealdb, cache, meal, translatedMeal, i, srcCalls, trCalls, wrote>>

  /\ UNCHANGED uvars

\* LookupThrows without a try block around the call: the rejection ends the
\* handler and nothing is sent
LookupThrowsUnanswered(r) ==
  /\ pc[r] = "lookup"
  /\ fault' = [fault EXCEPT ![r] = "source"]
  /\ pc' = [pc EXCEPT ![r] = "done"]
  /\ finished' = [finished EXCEPT ![r] = now]
  /\ UNCHANGED <<now, mealdb, cache, name, meal, translatedMeal, i, resp,
                 srcCalls, trCalls, wrote, prior, began>>

  /\ UNCHANGED uvars

\* axios.get rejects (network error, non-2xx status).
LookupThrows(r) ==
  /\ pc[r] = "lookup"
  /\ Catch(r, "source")
  /\ UNCHANGED <<now, mealdb, cache, name, meal, translatedMeal, i, srcCalls,
                 trCalls, wrote, prior, began>>

  /\ UNCHANGED uvars

\* LookupReturns without the null check: meals[0] of null throws a TypeError
\* and the catch block answers 500
LookupReturnsNoNullCheck(r) ==
  /\ pc[r] = "lookup"
  /\ LET meals == mealdb[name[r]]
     IN IF meals = << >>
        THEN /\ Send(r, 500, ErrorBody)
             /\ UNCHANGED <<meal, translatedMeal, trCalls>>
        ELSE /\ meal' = [meal EXCEPT ![r] = meals[1]]
             /\ translatedMeal' = [translatedMeal EXCEPT ![r] = Spread(meals[1])]
             /\ trCalls' = [trCalls EXCEPT ![r] = Append(@, meals[1].strMeal)]
             /\ pc' = [pc EXCEPT ![r] = "strMeal"]
             /\ UNCHANGED <<resp, finished>>
  /\ UNCHANGED <<now, mealdb, cache, name, i, srcCalls, wrote, fault, prior, began>>

  /\ UNCHANGED uvars

\* axios.get resolves: 404 when meals is null, else the first meal is copied
\* and translate(meal.strMeal) is issued.
LookupReturns(r) ==
  /\ pc[r] = "lookup"
  /\ LET meals == mealdb[name[r]]
     IN IF meals = << >>
        THEN /\ Send(r, 404, NotFoundBody)
             /\ UNCHANGED <<meal, translatedMeal, trCalls>>
        ELSE /\ meal' = [meal EXCEPT ![r] = meals[1]]
             /\ translatedMeal' = [translatedMeal EXCEPT ![r] = Spread(meals[1])]
             /\ trCalls' = [trCalls EXCEPT ![r] = Append(@, meals[1].strMeal)]
             /\ pc' = [pc EXCEPT ![r] = "strMeal"]
             /\ UNCHANGED <<resp, finished>>
  /\ UNCHANGED <<now, mealdb, cache, name, i, srcCalls, wrote, fault, prior, began>>

  /\ UNCHANGED uvars

Translating(r) == pc[r] \in {"strMeal", "strInstructions", "strIngredient"}

\* The pending translate() resolves and another field is left: the result is
\* assigned and the next translate() is issued.
TranslateResolves(r) ==
  /\ Translating(r)
  /\ pc[r] = "strMeal" \/ NextSlot(r) <= NumSlots
  /\ translatedMeal' = [translatedMeal EXCEPT ![r] = Resolved(r)]
  /\ IF pc[r] = "strMeal"
     THEN /\ pc' = [pc EXCEPT ![r] = "strInstructions"]
          /\ trCalls' = [trCalls EXCEPT ![r] = Append(@, meal[r].strInstructions)]
          /\ UNCHANGED i
     ELSE /\ pc' = [pc EXCEPT ![r] = "strIngredient"]
          /\ i' = [i EXCEPT ![r] = NextSlot(r)]
          /\ trCalls' = [trCalls EXCEPT ![r] = Append(@, meal[r].strIngredient[NextSlot(r)])]
  /\ UNCHANGED <<now, mealdb, cache, name, meal, resp, srcCalls, wrote, fault,
                 prior, began, finished>>

  /\ UNCHANGED uvars

\* Complete over a store that rejects a second insert of a key, the
\* rejection reaching the catch block
CompleteInsertOnly(r) ==
  /\ Translating(r)
  /\ pc[r] # "strMeal" /\ NextSlot(r) > NumSlots
  /\ translatedMeal' = [translatedMeal EXCEPT ![r] = Resolved(r)]
  /\ i' = [i EXCEPT ![r] = NumSlots + 1]
  /\ IF CacheKey(name[r]) \in DOMAIN cache
     THEN /\ Send(r, 500, ErrorBody)
          /\ UNCHANGED <<cache, wrote>>
     ELSE /\ cache' = CacheSet(cache, CacheKey(name[r]), Resolved(r), now)
          /\ wrote' = [wrote EXCEPT ![r] = TRUE]
          /\ Send(r, 200, Resolved(r))
  /\ UNCHANGED <<now, mealdb, name, meal, srcCalls, trCalls, fault, prior, began>>

  /\ UNCHANGED uvars

\* The last translate() resolves: the loop runs out, cache.set stores the
\* record and res.json(translatedMeal) answers 200.
Complete(r) ==
  /\ Translating(r)
  /\ pc[r] # "strMeal" /\ NextSlot(r) > NumSlots
  /\ translatedMeal' = [translatedMeal EXCEPT ![r] = Resolved(r)]
  /\ i' = [i EXCEPT ![r] = NumSlots + 1]
  /\ cache' = CacheSet(cache, CacheKey(name[r]), Resolved(r), now)
  /\ wrote' = [wrote EXCEPT ![r] = TRUE]
  /\ Send(r, 200, Resolved(r))
  /\ UNCHANGED <<now, mealdb, name, meal, srcCalls, trCalls, fault, prior, began>>

  /\ UNCHANGED uvars

\* The last translate() resolves and cache.set throws: the call sits in the
\* try block, so the catch block answers 500.
CompleteSetThrows(r) ==
  /\ Translating(r)
  /\ pc[r] # "strMeal" /\ NextSlot(r) > NumSlots
  /\ translatedMeal' = [translatedMeal EXCEPT ![r] = Resolved(r)]
  /\ i' = [i EXCEPT ![r] = NumSlots + 1]
  /\ Catch(r, "set")
  /\ UNCHANGED <<now, mealdb, cache, name, meal, srcCalls, trCalls, wrote, prior, began>>

  /\ UNCHANGED uvars

\* TranslateRejects with the error swallowed: the record translated so far
\* is stored and returned
TranslateRejectsKeepsPartial(r) ==
  /\ Translating(r)
  /\ fault' = [fault EXCEPT ![r] = "translate"]
  /\ cache' = CacheSet(cache, CacheKey(name[r]), translatedMeal[r], now)
  /\ Send(r, 200, translatedMeal[r])
  /\ UNCHANGED <<now, mealdb, name, meal, translatedMeal, i, srcCalls,
                 trCalls, wrote, prior, began>>

  /\ UNCHANGED uvars

\* The pending translate() rejects: the catch block answers 500.
TranslateRejects(r) ==
  /\ Translating(r)
  /\ Catch(r, "translate")
  /\ UNCHANGED <<now, mealdb, cache, name, meal, translatedMeal, i, srcCalls,
                 trCalls, wrote, prior, began>>

  /\ UNCHANGED uvars

\* Time passes, up to a later instant.
Tick(t) ==
  /\ t > now
  /\ now' = t
  /\ UNCHANGED <<mealdb, cache, pc, name, meal, translatedMeal, i, resp,
                 srcCalls, trCalls, wrote, fault, prior, began, finished>>

  /\ UNCHANGED uvars

\* NodeCache's periodic check deletes every expired entry.
CheckData ==
  /\ \E k \in DOMAIN cache : Expired(cache, k, now)
  /\ cache' = [k \in {x \in DOMAIN cache : ~Expired(cache, x, now)} |-> cache[k]]
  /\ UNCHANGED <<now, mealdb, pc, name, meal, translatedMeal, i, resp,
                 srcCalls, trCalls, wrote, fault, prior, began, finished>>

  /\ UNCHANGED uvars

Next ==
  \/ \E r \in Reqs, n \in Names : Request(r, n)
  \/ \E r \in Reqs, n \in Names : RequestGetThrows(r, n)
  \/ \E r \in Reqs : LookupThrows(r)
  \/ \E r \in Reqs : LookupReturns(r)
  \/ \E r \in Reqs : TranslateResolves(r)
  \/ \E r \in Reqs : Complete(r)
  \/ \E r \in Reqs : CompleteSetThrows(r)
  \/ \E r \in Reqs : TranslateRejects(r)
  \/ \E t \in Instants : Tick(t)
  \/ CheckData

Spec == Init /\ [][Next]_vars

(* --------------------------- account actions --------------------------- *)

\* account requests are numbered in the order they arrive
UArrives(u) == ureq[u].pc = "idle" /\ \A q \in UReqs : q < u => ureq[q].pc # "idle"

\* res.status(status).json(...), after which the handler returns
Answer(u, rec, status) ==
  /\ ureq' = [ureq EXCEPT ![u] = [rec EXCEPT !.pc = "done"]]
  /\ ures' = [ures EXCEPT ![u] = Append(@, status)]

\* the handler awaits its next query
Await(u, rec, at) ==
  /\ ureq' = [ureq EXCEPT ![u] = [rec EXCEPT !.pc = at]]
  /\ UNCHANGED ures

\* POST /usuarios up to the create: findUnique answers, 400 when the email is
\* taken, else the password is hashed (bcrypt.hash throws without one) and
\* the create is issued.
PostUsuarios(u, email, senha) ==
  /\ UArrives(u)
  /\ LET rec == [IdleRequest EXCEPT !.kind = "create", !.email = email, !.senha = senha]
         usuarioExistente == FindByEmail(usuario, email)
     IN IF usuarioExistente # NoRow
        THEN Answer(u, [rec EXCEPT !.usuario = usuarioExistente], 400)
        ELSE IF senha = Missing
        THEN Answer(u, rec, 500)
        ELSE \E salt \in Salts :
               Await(u, [rec EXCEPT !.senhaHash = Hash(senha, salt)], "create")
  /\ UNCHANGED <<usuario, nextId, secret>>
  /\ UNCHANGED rvars
  /\ UNCHANGED cvars

\* POST /usuarios, the create against a store without the unique email
\* constraint: the row is always inserted
PostUsuariosCreateUnchecked(u) ==
  /\ ureq[u].kind = "create" /\ ureq[u].pc = "create"
  /\ nextId <= MaxAccounts
  /\ usuario' = Put(usuario, nextId,
                    [email |-> ureq[u].email, senha |-> ureq[u].senhaHash])
  /\ secret' = Put(secret, nextId, ureq[u].senha)
  /\ nextId' = nextId + 1
  /\ Answer(u, ureq[u], 201)
  /\ UNCHANGED rvars
  /\ UNCHANGED cvars

\* POST /usuarios, the create: the unique email constraint rejects a taken
\* email (500), else the row is inserted with the hash (201).
PostUsuariosCreate(u) ==
  /\ ureq[u].kind = "create" /\ ureq[u].pc = "create"
  /\ IF FindByEmail(usuario, ureq[u].email) # NoRow
     THEN /\ Answer(u, ureq[u], 500)
          /\ UNCHANGED <<usuario, nextId, secret>>
     ELSE /\ nextId <= MaxAccounts
          /\ usuario' = Put(usuario, nextId,
                            [email |-> ureq[u].email, senha |-> ureq[u].senhaHash])
          /\ secret' = Put(secret, nextId, ureq[u].senha)
          /\ nextId' = nextId + 1
          /\ Answer(u, ureq[u], 201)
  /\ UNCHANGED rvars
  /\ UNCHANGED cvars

\* PUT /usuarios/:id storing the password as it came, without bcrypt.hash
PutUsuariosPlain(u, id, email, senha) ==
  /\ UArrives(u)
  /\ LET rec == [IdleRequest EXCEPT !.kind = "update", !.email = email, !.senha = senha]
     IN IF email = Missing /\ senha = Missing
        THEN /\ Answer(u, rec, 400)
             /\ UNCHANGED <<usuario, secret>>
        ELSE IF id \notin DOMAIN usuario
        THEN /\ Answer(u, rec, 500)
             /\ UNCHANGED <<usuario, secret>>
        ELSE IF email # Missing /\ \E x \in DOMAIN usuario \ {id} : usuario[x].email = email
        THEN /\ Answer(u, rec, 500)
             /\ UNCHANGED <<usuario, secret>>
        ELSE /\ usuario' = [usuario EXCEPT ![id] =
                  [email |-> IF email # Missing THEN email ELSE @.email,
                   senha |-> IF senha # Missing THEN senha ELSE @.senha]]
             /\ secret' = IF senha # Missing THEN Put(secret, id, senha) ELSE secret
             /\ Answer(u, rec, 200)
  /\ UNCHANGED nextId
  /\ UNCHANGED rvars
  /\ UNCHANGED cvars

\* PUT /usuarios/:id: 400 when neither field was sent; the update throws
\* (500) when no row has the id or the new email is another row's; else the
\* row takes the new email and the hash of the new password (200).
PutUsuarios(u, id, email, senha) ==
  /\ UArrives(u)
  /\ LET rec == [IdleRequest EXCEPT !.kind = "update", !.email = email, !.senha = senha]
     IN IF email = Missing /\ senha = Missing
        THEN /\ Answer(u, rec, 400)
             /\ UNCHANGED <<usuario, secret>>
        ELSE IF id \notin DOMAIN usuario
        THEN /\ Answer(u, rec, 500)
             /\ UNCHANGED <<usuario, secret>>
        ELSE IF email # Missing /\ \E x \in DOMAIN usuario \ {id} : usuario[x].email = email
        THEN /\ Answer(u, rec, 500)
             /\ UNCHANGED <<usuario, secret>>
        ELSE \E salt \in Salts :
             /\ usuario' = [usuario EXCEPT ![id] =
                  [email |-> IF email # Missing THEN email ELSE @.email,
                   senha |-> IF senha # Missing THEN Hash(senha, salt) ELSE @.senha]]
             /\ secret' = IF senha # Missing THEN Put(secret, id, senha) ELSE secret
             /\ Answer(u, rec, 200)
  /\ UNCHANGED nextId
  /\ UNCHANGED rvars
  /\ UNCHANGED cvars

\* the checks without bcrypt.compare: any password passes for a row found
VerifyWithoutCompare(row, password) ==
  IF row = NoRow THEN 400 ELSE 0

\* the checks shared by change-password, delete-account and login: findUnique
\* by email, then bcrypt.compare of the supplied password with the row's
\* senha (which throws without a password); 0 when both pass
Verify(row, password) ==
  IF row = NoRow THEN 400
  ELSE IF password = Missing THEN 500
  ELSE IF ~Compare(password, row.senha) THEN 400
  ELSE 0

\* POST /api/user/change-password up to the update: the checks, then the new
\* password is hashed (bcrypt.hash throws without one) and the update issued.
ChangePassword(u, email, currentPassword, newPassword) ==
  /\ UArrives(u)
  /\ LET row == FindByEmail(usuario, email)
         rec == [IdleRequest EXCEPT !.kind = "changePassword", !.email = email,
                                    !.senha = currentPassword,
                                    !.newPassword = newPassword, !.usuario = row]
     IN IF Verify(row, currentPassword) # 0
        THEN Answer(u, rec, Verify(row, currentPassword))
        ELSE IF newPassword = Missing
        THEN Answer(u, rec, 500)
        ELSE \E salt \in Salts :
               Await(u, [rec EXCEPT !.senhaHash = Hash(newPassword, salt)], "update")
  /\ UNCHANGED <<usuario, nextId, secret>>
  /\ UNCHANGED rvars
  /\ UNCHANGED cvars

\* POST /api/user/change-password, the update where email: throws (500) when
\* the row is gone, else the row takes the new hash (200).
ChangePasswordUpdate(u) ==
  /\ ureq[u].kind = "changePassword" /\ ureq[u].pc = "update"
  /\ LET row == FindByEmail(usuario, ureq[u].email)
     IN IF row = NoRow
        THEN /\ Answer(u, ureq[u], 500)
             /\ UNCHANGED <<usuario, secret>>
        ELSE /\ usuario' = [usuario EXCEPT ![row.id].senha = ureq[u].senhaHash]
             /\ secret' = Put(secret, row.id, ureq[u].newPassword)
             /\ Answer(u, ureq[u], 200)
  /\ UNCHANGED nextId
  /\ UNCHANGED rvars
  /\ UNCHANGED cvars

\* DELETE /api/user/delete-account up to the delete: the checks.
DeleteAccount(u, email, password) ==
  /\ UArrives(u)
  /\ LET row == FindByEmail(usuario, email)
         rec == [IdleRequest EXCEPT !.kind = "deleteAccount", !.email = email,
                                    !.senha = password, !.usuario = row]
     IN IF Verify(row, password) # 0
        THEN Answer(u, rec, Verify(row, password))
        ELSE Await(u, rec, "delete")
  /\ UNCHANGED <<usuario, nextId, secret>>
  /\ UNCHANGED rvars
  /\ UNCHANGED cvars

\* DELETE /api/user/delete-account, the delete where email: throws (500)
\* when the row is gone, else the row is removed (200).
DeleteAccountDelete(u) ==
  /\ ureq[u].kind = "deleteAccount" /\ ureq[u].pc = "delete"
  /\ LET row == FindByEmail(usuario, ureq[u].email)
     IN IF row = NoRow
        THEN /\ Answer(u, ureq[u], 500)
             /\ UNCHANGED <<usuario, secret>>
        ELSE /\ usuario' = Without(usuario, row.id)
             /\ secret' = Without(secret, row.id)
             /\ Answer(u, ureq[u], 200)
  /\ UNCHANGED nextId
  /\ UNCHANGED rvars
  /\ UNCHANGED cvars

\* POST /login: the checks, 200 with the row when they pass.  When
\* bcrypt.compare throws, the catch block answers 500 and goes on to
\* disconnect and reconnect the shared connection.
Login(u, email, senha) ==
  /\ UArrives(u)
  /\ LET row == FindByEmail(usuario, email)
         rec == [IdleRequest EXCEPT !.kind = "login", !.email = email,
                                    !.senha = senha, !.usuario = row]
     IN IF Verify(row, senha) = 500
        THEN /\ ureq' = [ureq EXCEPT ![u] = [rec EXCEPT !.pc = "disconnect"]]
             /\ ures' = [ures EXCEPT ![u] = Append(@, 500)]
             /\ thrown' = [thrown EXCEPT ![u] = "bcrypt.compare"]
        ELSE /\ Answer(u, rec, IF Verify(row, senha) # 0 THEN Verify(row, senha) ELSE 200)
             /\ UNCHANGED thrown
  /\ UNCHANGED <<usuario, nextId, secret, connected, disconnects>>
  /\ UNCHANGED rvars

\* POST /login when findUnique rejects (a fault of the database or of the
\* connection): the catch block answers 500 and goes on to disconnect.
LoginQueryThrows(u, email, senha) ==
  /\ UArrives(u)
  /\ ureq' = [ureq EXCEPT ![u] =
                [IdleRequest EXCEPT !.kind = "login", !.email = email,
                                    !.senha = senha, !.pc = "disconnect"]]
  /\ ures' = [ures EXCEPT ![u] = Append(@, 500)]
  /\ thrown' = [thrown EXCEPT ![u] = "findUnique"]
  /\ UNCHANGED <<usuario, nextId, secret, connected, disconnects>>
  /\ UNCHANGED rvars

\* the catch block of POST /login: await prisma.$disconnect()
LoginDisconnect(u) ==
  /\ ureq[u].kind = "login" /\ ureq[u].pc = "disconnect"
  /\ connected' = FALSE
  /\ disconnects' = [disconnects EXCEPT ![u] = @ + 1]
  /\ ureq' = [ureq EXCEPT ![u].pc = "connect"]
  /\ UNCHANGED <<usuario, nextId, secret, ures, thrown>>
  /\ UNCHANGED rvars

\* the catch block of POST /login: await prisma.$connect()
LoginConnect(u) ==
  /\ ureq[u].kind = "login" /\ ureq[u].pc = "connect"
  /\ connected' = TRUE
  /\ ureq' = [ureq EXCEPT ![u].pc = "done"]
  /\ UNCHANGED <<usuario, nextId, secret, ures, disconnects, thrown>>
  /\ UNCHANGED rvars

UserNext ==
  \/ \E u \in UReqs, e \in Emails, p \in Passwords \cup {Missing} : PostUsuarios(u, e, p)
  \/ \E u \in UReqs : PostUsuariosCreate(u)
  \/ \E u \in UReqs, id \in 1..MaxAccounts, e \in Emails \cup {Missing},
        p \in Passwords \cup {Missing} : PutUsuarios(u, id, e, p)
  \/ \E u \in UReqs, e \in Emails, p \in Passwords \cup {Missing},
        n \in Passwords \cup {Missing} : ChangePassword(u, e, p, n)
  \/ \E u \in UReqs : ChangePasswordUpdate(u)
  \/ \E u \in UReqs, e \in Emails, p \in Passwords \cup {Missing} : DeleteAccount(u, e, p)
  \/ \E u \in UReqs : DeleteAccountDelete(u)
  \/ \E u \in UReqs, e \in Emails, p \in Passwords \cup {Missing} : Login(u, e, p)
  \/ \E u \in UReqs, e \in Emails, p \in Passwords \cup {Missing} : LoginQueryThrows(u, e, p)
  \/ \E u \in UReqs : LoginDisconnect(u)
  \/ \E u \in UReqs : LoginConnect(u)

\* the account endpoints alone: the recipe side idle, its source empty
UserInit == Init /\ mealdb = [n \in Names |-> << >>]

UserSpec == UserInit /\ [][UserNext]_vars

(* ---------------------- vocabulary of the properties ------------------- *)

Done(r) == pc[r] = "done"

\* the source record of a name that the source holds
Source(n) == mealdb[n][1]

\* the translated view of a source record: strMeal, strInstructions and the
\* present ingredient slots in Portuguese, everything else as in the source
TranslatedView(m) ==
  [strMeal |-> Translate(m.strMeal),
   strInstructions |-> Translate(m.strInstructions),
   strMealThumb |-> m.strMealThumb,
   strIngredient |-> [s \in Slots |->
      IF Truthy(m.strIngredient[s]) THEN Translate(m.strIngredient[s])
      ELSE m.strIngredient[s]]]

\* a response
Response(status, body) == [status |-> status, body |-> body]

\* request q ended with 200 and a cache write before request r began, and
\* both asked for the same name
WroteBefore(q, r) ==
  /\ q \in prior[r]
  /\ name[q] = name[r]
  /\ wrote[q]

\* request r made no call to the source or to the translator and, unless its
\* cache read threw, was answered exactly as q was
ServedFromCache(r, q) ==
  /\ srcCalls[r] = 0
  /\ trCalls[r] = << >>
  /\ (Done(r) /\ fault[r] = "none") => resp[r] = resp[q]

(* ------------------------------- C1 ------------------------------------ *)

\* C1 as stated: once a request for a name has succeeded and populated the
\* cache, every later request for that name is answered from the cache, with
\* the same result and no call to the source or the translator.
C1_LaterRequestsServedFromCache ==
  \A r \in Reqs : \A q \in Reqs : WroteBefore(q, r) => ServedFromCache(r, q)

\* C1 as amended: the same for every later request that begins no more than
\* stdTTL seconds after the earlier request's cache write.
C1_ServedFromCacheWithinTTL ==
  \A r \in Reqs : \A q \in Reqs :
    (WroteBefore(q, r) /\ began[r] <= finished[q] + stdTTL) => ServedFromCache(r, q)

\* a request answered from the cache at the very last instant of the TTL
C1_Witness ==
  \E r \in Reqs : \E q \in Reqs :
    /\ WroteBefore(q, r)
    /\ began[r] = finished[q] + stdTTL
    /\ Done(r) /\ fault[r] = "none"
    /\ resp[r] = resp[q] /\ srcCalls[r] = 0
    /\ resp[r][1].status = 200

(* ------------------------------- C2 ------------------------------------ *)

\* the cache holds the record v for name n
Cached(n, v) == CacheKey(n) \in DOMAIN cache /\ cache[CacheKey(n)].v = v

\* C2: a request in which a translate() call failed wrote nothing to the
\* cache and was answered 500 with the error body, never with a record; and
\* no record that is only partly translated is ever in the cache.
C2_TranslationFailureIsAtomic ==
  /\ \A r \in Reqs :
       fault[r] = "translate" =>
         /\ ~wrote[r]
         /\ resp[r] = <<Response(500, ErrorBody)>>
  /\ \A n \in Names :
       CacheKey(n) \in DOMAIN cache => Cached(n, TranslatedView(Source(n)))

\* a translate() call failed after an earlier field had been translated, and
\* the name is not in the cache
C2_Witness ==
  \E r \in Reqs :
    /\ fault[r] = "translate"
    /\ Len(trCalls[r]) >= 2
    /\ translatedMeal[r] # meal[r]
    /\ Done(r)
    /\ CacheKey(name[r]) \notin DOMAIN cache

(* ------------------------------- C3 ------------------------------------ *)

\* C3: a request whose translations all succeeded and whose cache.set threw
\* is still answered 200 with the translated record.
C3_CacheWriteFailureTolerated ==
  \A r \in Reqs :
    fault[r] = "set" => resp[r] = <<Response(200, TranslatedView(meal[r]))>>

(* ------------------------------- C4 ------------------------------------ *)

\* the source holds nothing under the name of request r
Absent(r) == pc[r] # "idle" /\ mealdb[name[r]] = << >>

\* C4: a request for a name the source does not hold issues no translate()
\* call and writes nothing to the cache, and once the source has answered it
\* the response is 404, never 500.
C4_AbsentAtSourceIs404 ==
  \A r \in Reqs :
    Absent(r) =>
      /\ trCalls[r] = << >>
      /\ ~wrote[r]
      /\ CacheKey(name[r]) \notin DOMAIN cache
      /\ (Done(r) /\ fault[r] = "none") => resp[r] = <<Response(404, NotFoundBody)>>

\* a request for an absent name was answered 404 after one source lookup
C4_Witness ==
  \E r \in Reqs :
    /\ Absent(r) /\ Done(r)
    /\ srcCalls[r] = 1
    /\ resp[r][1].status = 404

(* ------------------------------- C5 ------------------------------------ *)

\* record out keeps every untranslated field of the source record src, and
\* has exactly the ingredient slots of src present, the absent ones unchanged
Preserves(out, src) ==
  /\ out.strMealThumb = src.strMealThumb
  /\ \A s \in Slots :
       /\ Truthy(out.strIngredient[s]) <=> Truthy(src.strIngredient[s])
       /\ ~Truthy(src.strIngredient[s]) => out.strIngredient[s] = src.strIngredient[s]

\* C5: the record a request returns with 200, and the record in the cache,
\* preserve the source record.
C5_FieldPreservation ==
  /\ \A r \in Reqs :
       (Done(r) /\ resp[r][1].status = 200) =>
          Preserves(resp[r][1].body, Source(name[r]))
  /\ \A n \in Names :
       CacheKey(n) \in DOMAIN cache => Preserves(cache[CacheKey(n)].v, Source(n))

\* a 200 response for a record with an empty slot, a null slot and a present
\* slot after them
C5_Witness ==
  \E r \in Reqs :
    /\ Done(r) /\ resp[r][1].status = 200
    /\ resp[r][1].body.strIngredient[1] = ""
    /\ resp[r][1].body.strIngredient[2] = "pt:egg"
    /\ resp[r][1].body.strIngredient[4] = Null
    /\ Cached(name[r], resp[r][1].body)

(* ------------------------------- C6 ------------------------------------ *)

\* C6 as stated: an entry, once in the cache, stays there for good with the
\* same record.
C6_EntryNeverUpdatedOrDeleted ==
  [][\A k \in DOMAIN cache : k \in DOMAIN cache' /\ cache'[k].v = cache[k].v]_vars

\* C6 as amended: an entry is in the cache only after a successful
\* translation of its name wrote it, it holds the translated view of the
\* source record for as long as it is there, and it is still there at every
\* instant up to stdTTL seconds after a write of its name.
C6_EntryKeptUntilTTL ==
  /\ \A n \in Names :
       CacheKey(n) \in DOMAIN cache =>
         /\ Cached(n, TranslatedView(Source(n)))
         /\ \E q \in Reqs :
              /\ wrote[q] /\ name[q] = n
              /\ resp[q] = <<Response(200, cache[CacheKey(n)].v)>>
              /\ cache[CacheKey(n)].t >= finished[q] + stdTTL
  /\ \A q \in Reqs :
       (wrote[q] /\ now <= finished[q] + stdTTL) => Cached(name[q], resp[q][1].body)

\* an entry written at the start is still in the cache, with the record its
\* writer returned, at the last instant of its TTL
C6_Witness ==
  \E q \in Reqs :
    /\ wrote[q] /\ finished[q] = 0
    /\ now = stdTTL
    /\ Cached(name[q], resp[q][1].body)
    /\ cache[CacheKey(name[q])].t = now

(* ------------------------------- C7 ------------------------------------ *)

\* the texts a request must hand to translate(), in order
Worklist(m) ==
  <<m.strMeal, m.strInstructions>> \o SelectSeq([s \in Slots |-> m.strIngredient[s]], Truthy)

\* requests r and q overlap: neither had ended when the other began
Concurrent(r, q) == r # q /\ pc[r] # "idle" /\ pc[q] # "idle" /\ r \notin prior[q] /\ q \notin prior[r]

\* no request that ended before r began had written r's name to the cache
Uncached(r) == \A w \in prior[r] : ~(wrote[w] /\ name[w] = name[r])

\* no call of request r threw
Healthy(r) == fault[r] = "none"

\* C7: of two overlapping requests for the same uncached name that the
\* source holds, with no call failing, each makes its own source lookup and
\* its own translations, and once both have ended each has written the cache
\* and has been answered 200 with the translated record, and the cache holds
\* that record until its TTL has elapsed.
C7_ConcurrentMissesBothSucceed ==
  \A r \in Reqs : \A q \in Reqs :
    ( /\ Concurrent(r, q)
      /\ name[r] = name[q]
      /\ mealdb[name[r]] # << >>
      /\ Uncached(r) /\ Uncached(q)
      /\ Healthy(r) /\ Healthy(q) ) =>
        /\ srcCalls[r] = 1
        /\ (Done(r) /\ Done(q)) =>
             /\ trCalls[r] = Worklist(Source(name[r]))
             /\ trCalls[q] = Worklist(Source(name[r]))
             /\ wrote[r] /\ wrote[q]
             /\ resp[r] = <<Response(200, TranslatedView(Source(name[r])))>>
             /\ resp[q] = resp[r]
             /\ now <= finished[r] + stdTTL =>
                  /\ Cached(name[r], TranslatedView(Source(name[r])))
                  /\ cache[CacheKey(name[r])].t >= finished[r] + stdTTL

\* two overlapping requests for the same uncached name have both ended with
\* 200, the second cache.set falling on an entry the first had written
C7_Witness ==
  \E r \in Reqs : \E q \in Reqs :
    /\ Concurrent(r, q) /\ name[r] = name[q]
    /\ Done(r) /\ Done(q)
    /\ wrote[r] /\ wrote[q]
    /\ srcCalls[r] = 1 /\ srcCalls[q] = 1
    /\ resp[r][1].status = 200 /\ resp[q][1].status = 200
    /\ finished[r] < finished[q]
    /\ Cached(name[r], resp[q][1].body)

(* ------------------------------- C8 ------------------------------------ *)

\* C8: a request that has not ended has sent nothing, a request that has
\* ended has sent exactly one response: 200 with the translated record when
\* nothing failed and the source holds the name, 404 when nothing failed and
\* the source does not hold it, 500 with the error body when the cache read,
\* the source, the translator or the cache write failed; and a request
\* answered 500 has written nothing to the cache.
C8_ExactlyOneResponse ==
  \A r \in Reqs :
    /\ ~Done(r) => resp[r] = << >>
    /\ Done(r) =>
         /\ Len(resp[r]) = 1
         /\ (Healthy(r) /\ mealdb[name[r]] # << >>) =>
               resp[r][1] = Response(200, TranslatedView(Source(name[r])))
         /\ (Healthy(r) /\ mealdb[name[r]] = << >>) =>
               resp[r][1] = Response(404, NotFoundBody)
         /\ ~Healthy(r) => resp[r][1] = Response(500, ErrorBody)
         /\ resp[r][1].status = 500 => ~wrote[r]

\* requests have ended with 500 after a failed cache read and after a failed
\* source lookup
C8_Witness ==
  \E r \in Reqs : \E q \in Reqs :
    /\ Done(r) /\ fault[r] = "get" /\ resp[r][1].status = 500
    /\ Done(q) /\ fault[q] = "source" /\ resp[q][1].status = 500

(* ------------------------------- C9 ------------------------------------ *)

\* C9: no request hands the empty string to translate().
C9_NoEmptyTranslateCall ==
  \A r \in Reqs : \A k \in DOMAIN trCalls[r] : trCalls[r][k] # ""

(* ------------------------------- C10 ----------------------------------- *)

\* the account requests that verify a password
Verifying == {"login", "changePassword", "deleteAccount"}

\* C10: the senha of every row is a bcrypt hash of the password supplied by
\* the request that set it, never that password itself nor any other
\* password as it came; a hash waiting to be stored is the hash of the
\* supplied password; and a request that verifies a password passes only if
\* the supplied password hashes to the senha of the row it read, and is
\* answered 400 if it does not.
C10_PasswordsStoredHashed ==
  /\ \A id \in DOMAIN usuario :
       /\ Compare(secret[id], usuario[id].senha)
       /\ usuario[id].senha # secret[id]
       /\ usuario[id].senha \notin Passwords \cup {Missing}
  /\ \A u \in UReqs :
       /\ ureq[u].pc = "create" => Compare(ureq[u].senha, ureq[u].senhaHash)
       /\ ureq[u].pc = "update" => Compare(ureq[u].newPassword, ureq[u].senhaHash)
       /\ (ureq[u].kind \in Verifying /\ ureq[u].usuario # NoRow /\ ureq[u].senha # Missing) =>
            IF Compare(ureq[u].senha, ureq[u].usuario.senha)
            THEN ureq[u].kind = "login" => ures[u] = <<200>>
            ELSE ures[u] = <<400>>
       /\ (ureq[u].kind \in Verifying /\ (ures[u] = <<200>> \/ ureq[u].pc \in {"update", "delete"})) =>
            /\ ureq[u].usuario # NoRow
            /\ Compare(ureq[u].senha, ureq[u].usuario.senha)

\* a change-password request has replaced the hash of an account created
\* earlier: the row verifies the new password and no longer the old one
C10_Witness ==
  \E u \in UReqs : \E id \in DOMAIN usuario :
    /\ ureq[u].kind = "changePassword" /\ ures[u] = <<200>>
    /\ usuario[id].email = ureq[u].email
    /\ ureq[u].newPassword # ureq[u].senha
    /\ Compare(ureq[u].newPassword, usuario[id].senha)
    /\ ~Compare(ureq[u].senha, usuario[id].senha)
    /\ \E c \in UReqs : ureq[c].kind = "create" /\ ures[c] = <<201>> /\ ureq[c].senha = ureq[u].senha

(* ------------------------------- C11 ----------------------------------- *)

\* sequence a is an initial part of sequence b
IsPrefix(a, b) == Len(a) <= Len(b) /\ \A k \in 1..Len(a) : a[k] = b[k]

\* request r missed the cache: it went to the source
Missed(r) == srcCalls[r] > 0

\* the calls request r is still waiting for
Awaited(r) == IF Translating(r) THEN 1 ELSE 0

\* C11: a request that missed the cache makes exactly one source lookup and
\* none before the lookup answered; when the source holds the name, its
\* translate() calls are, in order and once each, those for strMeal,
\* strInstructions and the present ingredient slots, one awaited at a time,
\* none for an absent slot and none repeated; a request in which no call
\* failed has made all of them when it ends and is answered 200, with
\* exactly two calls when no ingredient slot is present.
C11_OneCallPerWorkItem ==
  \A r \in Reqs :
    /\ srcCalls[r] <= 1
    /\ ~Missed(r) => trCalls[r] = << >>
    /\ (Missed(r) /\ mealdb[name[r]] # << >>) =>
         /\ IsPrefix(trCalls[r], Worklist(Source(name[r])))
         /\ pc[r] = "lookup" => trCalls[r] = << >>
         /\ Translating(r) => trCalls[r] # << >>
         /\ (Done(r) /\ Healthy(r)) =>
              /\ trCalls[r] = Worklist(Source(name[r]))
              /\ resp[r] = <<Response(200, TranslatedView(Source(name[r])))>>
              /\ (\A s \in Slots : ~Truthy(Source(name[r]).strIngredient[s])) =>
                   Len(trCalls[r]) = 2

\* one request has ended with 200 after four calls for a record whose
\* present slots are 2 and 20, another after two calls for a record with no
\* present slot
C11_Witness ==
  \E r \in Reqs : \E q \in Reqs :
    /\ Done(r) /\ Healthy(r) /\ Missed(r)
    /\ trCalls[r] = <<"Pie", "", "egg", "salt">>
    /\ resp[r][1].status = 200
    /\ Done(q) /\ Healthy(q) /\ Missed(q)
    /\ trCalls[q] = <<"Tart", "Chill">>
    /\ resp[q][1].status = 200

(* ------------------------------- C12 ----------------------------------- *)

\* account request u has cut, or is about to cut, the shared connection
Reconnects(u) == disconnects[u] > 0 \/ ureq[u].pc \in {"disconnect", "connect"}

\* C12: a login request disconnects and reconnects the shared connection
\* only when a query of the database threw, never because the user is
\* unknown, the password is wrong or a credential is missing.
C12_ReconnectOnlyOnDatabaseFault ==
  \A u \in UReqs : Reconnects(u) => thrown[u] = "findUnique"

(* ------------------------------- C13 ----------------------------------- *)

\* the ids of the accounts holding email e
RowsWith(e) == {id \in DOMAIN usuario : usuario[id].email = e}

\* account request w is a POST /usuarios carrying email e
Creates(w, e) == ureq[w].kind = "create" /\ ureq[w].email = e

\* account request w took email e out of the store: a delete-account of e or
\* a PUT that gave a row another email, answered 200
Frees(w, e) ==
  /\ ures[w] = <<200>>
  /\ \/ ureq[w].kind = "deleteAccount" /\ ureq[w].email = e
     \/ ureq[w].kind = "update" /\ ureq[w].email \notin {Missing, e}

\* at most one account holds an email, and of the POST /usuarios requests
\* carrying an email that no request took out of the store at most one is
\* answered 201
OneAccountPerEmail ==
  \A e \in Emails :
    /\ Cardinality(RowsWith(e)) <= 1
    /\ (\A w \in UReqs : ~Frees(w, e)) =>
         \A u, q \in UReqs :
           (u # q /\ Creates(u, e) /\ Creates(q, e)) =>
             ~(ures[u] = <<201>> /\ ures[q] = <<201>>)

\* a step in which POST /usuarios arrives while an account holds its email
\* answers it 400 and leaves the account store as it was
LateCreateRejected ==
  \A u \in UReqs :
    (/\ ureq[u].pc = "idle"
     /\ ureq'[u].kind = "create"
     /\ RowsWith(ureq'[u].email) # {}) =>
      /\ ureq'[u].pc = "done"
      /\ ures'[u] = <<400>>
      /\ usuario' = usuario

\* C13: whatever the interleaving of POST /usuarios requests carrying the
\* same email, at most one account with that email exists and at most one of
\* the requests is answered 201; a request that runs after the account exists
\* is answered 400 and leaves the account store unchanged.
C13_CreateRaceYieldsOneAccount ==
  /\ []OneAccountPerEmail
  /\ [][LateCreateRejected]_vars

\* two POST /usuarios with the same email both passed the findUnique check
\* before either created: one created the account (201), the unique email
\* constraint rejected the other (500), and one account holds the email
C13_Witness ==
  \E u, q \in UReqs :
    /\ u # q
    /\ Creates(u, ureq[q].email) /\ Creates(q, ureq[u].email)
    /\ ureq[u].senhaHash # Missing /\ ureq[q].senhaHash # Missing
    /\ ures[u] = <<201>> /\ ures[q] = <<500>>
    /\ Cardinality(RowsWith(ureq[u].email)) = 1

(* ------------------------------- C14 ----------------------------------- *)

\* the account operations that ask for the current password
Guarded == {"changePassword", "deleteAccount"}

\* the request found a row by email and the password it carries matches the
\* hash of the row it read
Matched(rec) ==
  /\ rec.usuario # NoRow
  /\ rec.senha # Missing
  /\ Compare(rec.senha, rec.usuario.senha)

\* the request found no row, or a row whose hash its password does not match
Mismatched(rec) ==
  \/ rec.usuario = NoRow
  \/ rec.senha # Missing /\ ~Compare(rec.senha, rec.usuario.senha)

\* a step of a change-password or delete-account request changes the account
\* store only if the request matched, and the step in which a request
\* mismatches answers it 400 and changes nothing in the store
GuardedStep ==
  \A u \in UReqs :
    (ureq'[u] # ureq[u] /\ ureq'[u].kind \in Guarded) =>
      /\ usuario' # usuario =>
           /\ ureq[u].pc \in {"update", "delete"}
           /\ Matched(ureq[u])
           /\ ures'[u] = <<200>>
      /\ Matched(ureq'[u]) \/ usuario' = usuario
      /\ (ureq[u].pc = "idle" /\ Mismatched(ureq'[u])) =>
           /\ ureq'[u].pc = "done"
           /\ ures'[u] = <<400>>
           /\ usuario' = usuario

\* C14: change-password and delete-account modify the account store only in
\* a request that found the account by email and whose password matched the
\* hash it read; when the account does not exist or the password does not
\* match, the request is answered 400 and the account store is unchanged.
C14_StoreChangedOnlyAfterMatch == [][GuardedStep]_vars

\* a change-password found the account, its password matched the hash it
\* read, and the row now holds the hash of the new password
C14_Witness ==
  \E u \in UReqs :
    /\ ureq[u].kind = "changePassword" /\ ures[u] = <<200>>
    /\ Matched(ureq[u])
    /\ ureq[u].usuario.id \in DOMAIN usuario
    /\ usuario[ureq[u].usuario.id].senha = ureq[u].senhaHash
    /\ ureq[u].senhaHash # ureq[u].usuario.senha

====
